---- MODULE Spec2Model ----
(***************************************************************************)
(* Silence-aware audio segment extraction of the Videoextractor service:   *)
(* src/src/app/services/video_processor.py (class VideoProcessor).         *)
(*                                                                         *)
(* Times are integers counting tenths of a second (1 tick = 0.1 s), so the *)
(* 0.2 s default padding is 2 ticks and a 10 s clip lasts 100 ticks.  The  *)
(* code compares, adds and subtracts float seconds; the model does the     *)
(* same on exact ticks (float rounding is not modelled).                   *)
(***************************************************************************)
EXTENDS Integers, Sequences, FiniteSets, TLC

VARIABLES
    inv_silence,      \* _get_speech_segments: argument silence_segments
    inv_duration,     \* _get_speech_segments: argument total_duration
    inv_speech,       \* _get_speech_segments: the returned speech_segments
    inv_pc,           \* "ready" before the call, "done" after it
    inv_calls,        \* calls of _get_speech_segments made so far (2: two or more)
    log,              \* _parse_silence_output: the lines of the detector's log
    line_no,          \* _parse_silence_output: index of the next line of the scan
    parse_start,      \* _parse_silence_output: silence_start, the buffered start (<<>> for None)
    parse_segments,   \* _parse_silence_output: silence_segments, the intervals emitted so far
    parse_pc,         \* "idle", "scan" inside the loop, "done" after the return
    pc,               \* extract_audio_with_silence_removal: where the coroutine stands
    audio_padding,    \* self.audio_padding (ticks)
    det_silence,      \* silence_segments, as detect_silence returned it
    duration,         \* duration, as _get_audio_duration returned it
    speech,           \* speech_segments of remove_silence_segments
    plan,             \* the (padded_start, padded_end) of the atrim filters, in order
    result,           \* the returned path: "none", "raw_audio" or "no_silence"
    error,            \* the exception raised: "none" or its message
    files,            \* the audio artifacts on disk
    exits,            \* how each external process ended ("none": not run)
    concat,           \* the concat filter: its inputs [a0][a1].. in order, and n
    runs,             \* attempts to start each external process so far
    web_req,          \* web.py: the requests being served, each with its position
    web_fs,           \* web.py: the files on the host, each with the request that wrote it
    web_dirs,         \* web.py: the directories on the host
    web_shared        \* web.py: accesses of one request to an artifact written by another

invVars == <<inv_silence, inv_duration, inv_speech, inv_pc, inv_calls>>
parseVars == <<log, line_no, parse_start, parse_segments, parse_pc>>
pipeVars == <<pc, audio_padding, det_silence, duration, speech, plan, result, error, files, exits,
              concat, runs>>
webVars == <<web_req, web_fs, web_dirs, web_shared>>
vars == <<invVars, parseVars, pipeVars, webVars>>

\* ---------------------------------------------------------------- bounds
MaxT == 3             \* largest timestamp / duration of the exhaustive grid (ticks)
MaxLen == 2           \* longest silence list of the exhaustive grid
MaxLines == 4         \* longest detector log of the exhaustive grid
MaxPad == 2           \* largest padding of the exhaustive grid (ticks)

\* ------------------------------------------------------------- helpers
Max(a, b) == IF a >= b THEN a ELSE b
Min(a, b) == IF a <= b THEN a ELSE b

SeqsUpTo(S, n) == UNION {[1..k -> S] : k \in 0..n}

\* ------------------------------------------------- _get_speech_segments
\* Python's ordering of (start, end) tuples: lexicographic.
TupleLess(a, b) == a[1] < b[1] \/ (a[1] = b[1] /\ a[2] < b[2])

\* Insertion of x into an ascending sequence, after every element <= x.
RECURSIVE InsertSorted(_, _)
InsertSorted(x, s) ==
    IF s = <<>> THEN <<x>>
    ELSE IF TupleLess(x, Head(s)) THEN <<x>> \o s
    ELSE <<Head(s)>> \o InsertSorted(x, Tail(s))

RECURSIVE SortAscending(_)
SortAscending(s) ==
    IF s = <<>> THEN <<>>
    ELSE InsertSorted(s[Len(s)], SortAscending(SubSeq(s, 1, Len(s) - 1)))

\* A mutant of the iteration order: the list is walked as supplied.
UnsortedSegments(silence_segments) == silence_segments

\* line 195: sorted(silence_segments)
SortedSegments(silence_segments) == SortAscending(silence_segments)

\* A mutant of the gap test: <= lets a zero-length gap through.
GapBeforeOrAt(current_pos, silence_start) == current_pos <= silence_start

\* line 196: if current_pos < silence_start
GapBefore(current_pos, silence_start) == current_pos < silence_start

\* A mutant of the cursor update: the cursor jumps to the interval's end.
AdvanceToEnd(current_pos, silence_end) == silence_end

\* line 198: current_pos = max(current_pos, silence_end)
AdvanceCursor(current_pos, silence_end) == Max(current_pos, silence_end)

\* lines 195-198: the walk over the sorted silence intervals; the result is
\* the cursor and the speech intervals emitted so far.
RECURSIVE SpeechWalk(_, _, _)
SpeechWalk(segs, current_pos, speech_segments) ==
    IF segs = <<>> THEN [current_pos |-> current_pos, speech_segments |-> speech_segments]
    ELSE LET silence_start == Head(segs)[1]
             silence_end == Head(segs)[2]
             emitted == IF GapBefore(current_pos, silence_start)
                        THEN Append(speech_segments, <<current_pos, silence_start>>)
                        ELSE speech_segments
         IN  SpeechWalk(Tail(segs), AdvanceCursor(current_pos, silence_end), emitted)

\* A mutant of the final segment: the speech after the last silence is lost.
NoFinalSegment(speech_segments, current_pos, total_duration) == speech_segments

\* lines 200-202: the final segment after the last silence
FinalSegment(speech_segments, current_pos, total_duration) ==
    IF current_pos < total_duration
    THEN Append(speech_segments, <<current_pos, total_duration>>)
    ELSE speech_segments

\* A mutant of the early return: an empty silence list falls through to the walk.
NoEarlyReturn(silence_segments) == FALSE

\* line 189: if not silence_segments
NoSilence(silence_segments) == silence_segments = <<>>

\* lines 183-204
_get_speech_segments(silence_segments, total_duration) ==
    IF NoSilence(silence_segments)
    THEN << <<0, total_duration>> >>
    ELSE LET walk == SpeechWalk(SortedSegments(silence_segments), 0, <<>>)
         IN  FinalSegment(walk.speech_segments, walk.current_pos, total_duration)

\* ------------------------------------------------ _parse_silence_output
\* A log line is what the parser reads of it: which markers it contains and
\* what float() makes of the token after the marker the code looks at.
\*   kind "start": 'silence_start:' in line;  "end": only 'silence_end:' in line;
\*   "both": both markers in the line (the if of line 92 wins);  "other": neither.
\*   ts: <<v>> when line.split(marker + ' ')[1].split()[0] parses to the float v,
\*       <<>> when that raises IndexError or ValueError.
None == <<>>
HasStartMarker(line) == line.kind \in {"start", "both"}
HasEndMarker(line) == line.kind \in {"end", "both"}

\* A mutant of the start branch: a failed parse also forgets the buffered start.
StartMarkerForgetsOnFailure(st, ts) ==
    IF ts = <<>> THEN [st EXCEPT !.silence_start = None]
    ELSE [st EXCEPT !.silence_start = ts]

\* lines 93-96: the start branch; on IndexError/ValueError nothing was assigned.
StartMarker(st, ts) ==
    IF ts = <<>> THEN st
    ELSE [st EXCEPT !.silence_start = ts]

\* A mutant of the end branch: the buffered start survives the emission.
EndMarkerKeepsStart(st, ts) ==
    IF ts = <<>> THEN st
    ELSE [st EXCEPT !.silence_segments = Append(@, <<st.silence_start[1], ts[1]>>)]

\* lines 98-103: the end branch; on IndexError/ValueError nothing was appended.
EndMarker(st, ts) ==
    IF ts = <<>> THEN st
    ELSE [silence_start |-> None,
          silence_segments |-> Append(st.silence_segments, <<st.silence_start[1], ts[1]>>)]

\* lines 92-103: the body of the loop for one line.
ParseLine(st, line) ==
    IF HasStartMarker(line) THEN StartMarker(st, line.ts)
    ELSE IF HasEndMarker(line) /\ st.silence_start # None THEN EndMarker(st, line.ts)
    ELSE st

RECURSIVE ParseLines(_, _)
ParseLines(st, lines) ==
    IF lines = <<>> THEN st ELSE ParseLines(ParseLine(st, Head(lines)), Tail(lines))

\* lines 85-105
_parse_silence_output(output) ==
    ParseLines([silence_start |-> None, silence_segments |-> <<>>], output).silence_segments

\* ------------------------------------------------ remove_silence_segments
\* line 144: padded_start = max(0, start - float(self.audio_padding))
PaddedStart(start, padding) == Max(0, start - padding)

\* A mutant of line 145: the end is padded but not clamped to the duration.
PaddedEndUnclamped(end, padding, total) == end + padding

\* line 145: padded_end = min(duration, end + float(self.audio_padding))
PaddedEnd(end, padding, total) == Min(total, end + padding)

\* A mutant of the loop: a padded segment that overlaps the one before it is
\* merged into it.
RECURSIVE MergeOverlapping(_, _)
MergeOverlapping(done, rest) ==
    IF rest = <<>> THEN done
    ELSE IF done # <<>> /\ Head(rest)[1] < done[Len(done)][2]
         THEN MergeOverlapping(
                  [done EXCEPT ![Len(done)] = <<@[1], Max(@[2], Head(rest)[2])>>], Tail(rest))
         ELSE MergeOverlapping(Append(done, Head(rest)), Tail(rest))
MergedPaddedSegments(speech_segments, padding, total) ==
    MergeOverlapping(<<>>,
        [i \in 1..Len(speech_segments) |->
            <<Max(0, speech_segments[i][1] - padding),
              Min(total, speech_segments[i][2] + padding)>>])

\* lines 142-148: one atrim per speech segment, in the order of the list.
PaddedSegments(speech_segments, padding, total) ==
    [i \in 1..Len(speech_segments) |->
        <<PaddedStart(speech_segments[i][1], padding),
          PaddedEnd(speech_segments[i][2], padding, total)>>]

\* lines 148, 151: input_parts, the labels a0, a1, .. of the trims in the order
\* they are concatenated
ConcatInputs(n) == [i \in 1..n |-> i - 1]

\* A mutant of line 134: an empty list of speech segments is not noticed.
NeverNoSpeech(speech_segments) == FALSE

\* line 134: if not speech_segments
NoSpeech(speech_segments) == speech_segments = <<>>

NoExits == [extract |-> "none", detect |-> "none", probe |-> "none", stitch |-> "none"]
NoRuns == [extract |-> 0, detect |-> 0, probe |-> 0, stitch |-> 0]
NoConcat == [inputs |-> <<>>, n |-> 0]

\* ------------------------------------------------------- idle parts
\* Each specification runs one part of the program; the others stay idle.
InvIdle ==
    /\ inv_silence = <<>> /\ inv_duration = 0 /\ inv_speech = <<>>
    /\ inv_pc = "idle" /\ inv_calls = 0
ParseIdle ==
    /\ log = <<>> /\ line_no = 1 /\ parse_start = None /\ parse_segments = <<>>
    /\ parse_pc = "idle"
PipeIdle ==
    /\ pc = "idle" /\ audio_padding = 0 /\ det_silence = <<>> /\ duration = 0
    /\ speech = <<>> /\ plan = <<>> /\ result = "none" /\ error = "none"
    /\ files = {} /\ exits = NoExits /\ concat = NoConcat /\ runs = NoRuns
WebIdle ==
    /\ web_req = <<>> /\ web_fs = {} /\ web_dirs = {} /\ web_shared = {}

\* ------------------------------------------- specification SpecInvert
\* The inverter applied to every silence list and duration of a bounded grid,
\* to lists holding pairs that are no TimeInterval (the parser hands over
\* whatever floats the log carries), and to the worked example of spec.md.
GridIntervals == {iv \in (0..MaxT) \X (0..MaxT) : iv[1] <= iv[2]}
GridSilence == SeqsUpTo(GridIntervals, MaxLen)
GridDurations == 0..MaxT
OddIntervals == {<<0 - 1, 1>>, <<0 - 2, 0 - 1>>, <<2, 1>>, <<3, 0>>, <<0, 2>>, <<1, 3>>}
OddSilence == {s \in SeqsUpTo(OddIntervals, 2) : s # <<>>}
OverlapExample == [silence |-> << <<10, 50>>, <<30, 80>> >>, duration |-> 100]
InvInputs ==
    {[silence |-> s, duration |-> d] : s \in GridSilence \cup OddSilence, d \in GridDurations}
        \cup {OverlapExample}

\* s with the elements at positions i and i + 1 exchanged.
SwapAdjacent(s, i) ==
    [k \in 1..Len(s) |-> IF k = i THEN s[i + 1] ELSE IF k = i + 1 THEN s[i] ELSE s[k]]

InvInit ==
    /\ \E in \in InvInputs :
          /\ inv_silence = in.silence
          /\ inv_duration = in.duration
    /\ inv_speech = <<>>
    /\ inv_pc = "ready"
    /\ inv_calls = 0
    /\ ParseIdle
    /\ PipeIdle
    /\ WebIdle

\* One call of _get_speech_segments.
InvertCall ==
    /\ inv_pc = "ready"
    /\ inv_speech' = _get_speech_segments(inv_silence, inv_duration)
    /\ inv_pc' = "done"
    /\ inv_calls' = 1
    /\ UNCHANGED <<inv_silence, inv_duration, parseVars, pipeVars, webVars>>

\* A further call on the same intervals with two neighbours exchanged; every
\* order of the list is reached by such exchanges.
InvertReordered ==
    /\ inv_pc = "done"
    /\ \E i \in 1..(Len(inv_silence) - 1) :
          /\ inv_silence[i] # inv_silence[i + 1]
          /\ inv_silence' = SwapAdjacent(inv_silence, i)
          /\ inv_speech' = _get_speech_segments(SwapAdjacent(inv_silence, i), inv_duration)
    /\ inv_calls' = 2
    /\ UNCHANGED <<inv_duration, inv_pc, parseVars, pipeVars, webVars>>

InvNext == InvertCall \/ InvertReordered

SpecInvert == InvInit /\ [][InvNext]_vars

\* -------------------------------------------- specification SpecParse
\* The parser scanning every log of a bounded grid, line by line.  The parser
\* never compares or computes with a timestamp, so three floats stand for all:
\* a negative one and two positive ones.
Stamps == {<<0 - 1>>, <<1>>, <<2>>}
GridLines ==
    {[kind |-> k, ts |-> t] : k \in {"start", "end"}, t \in Stamps \cup {<<>>}}
        \cup {[kind |-> "both", ts |-> t] : t \in {<<>>, <<1>>}}
        \cup {[kind |-> "other", ts |-> <<>>]}
StartLine(v) == [kind |-> "start", ts |-> <<v>>]
EndLine(v) == [kind |-> "end", ts |-> <<v>>]
\* "silence_start: 1.0\nsilence_end: 2.5\nsilence_start: 9.0\n"; the text after the
\* last newline is one more, empty, line of output.split('\n').
DanglingExample == <<StartLine(10), EndLine(25), StartLine(90), [kind |-> "other", ts |-> <<>>]>>
GridLogs == SeqsUpTo(GridLines, MaxLines) \cup {DanglingExample}

ParseInit ==
    /\ log \in GridLogs
    /\ line_no = 1
    /\ parse_start = None
    /\ parse_segments = <<>>
    /\ parse_pc = "scan"
    /\ InvIdle
    /\ PipeIdle
    /\ WebIdle

\* One iteration of the for loop of line 91.
ScanLine ==
    /\ parse_pc = "scan"
    /\ line_no <= Len(log)
    /\ LET st == ParseLine([silence_start |-> parse_start,
                            silence_segments |-> parse_segments], log[line_no])
       IN  /\ parse_start' = st.silence_start
           /\ parse_segments' = st.silence_segments
    /\ line_no' = line_no + 1
    /\ UNCHANGED <<log, parse_pc, invVars, pipeVars, webVars>>

\* line 105: return silence_segments, once the lines are exhausted.
ParseReturn ==
    /\ parse_pc = "scan"
    /\ line_no > Len(log)
    /\ parse_pc' = "done"
    /\ UNCHANGED <<log, line_no, parse_start, parse_segments, invVars, pipeVars, webVars>>

ParseNext == ScanLine \/ ParseReturn

SpecParse == ParseInit /\ [][ParseNext]_vars

\* ------------------------------------------------- specification Spec
\* One run of extract_audio_with_silence_removal (lines 21-42).  The external
\* processes are inputs: each ends in one of the ways the code distinguishes.
\* The detector's log holds a start and an end marker per silence interval;
\* the duration tool prints any duration, the clip's or another.
LogOf(segs) ==
    [i \in 1..(2 * Len(segs)) |->
        IF i % 2 = 1 THEN StartLine(segs[(i + 1) \div 2][1]) ELSE EndLine(segs[i \div 2][2])]
PadExample == [silence |-> << <<0, 20>>, <<40, 100>> >>, padding |-> 2, duration |-> 100]
ClampExample == [silence |-> << <<10, 100>> >>, padding |-> 5, duration |-> 100]
EndToEndExample == [silence |-> << <<40, 60>> >>, padding |-> 5, duration |-> 100]
Examples == {PadExample, ClampExample, EndToEndExample}
DetectorSilence == GridSilence \cup {x.silence : x \in Examples}
Paddings == (0..MaxPad) \cup {x.padding : x \in Examples}
Durations == (0..MaxT) \cup {x.duration : x \in Examples}

Init ==
    /\ pc = "start"
    /\ audio_padding \in Paddings
    /\ det_silence = <<>> /\ duration = 0 /\ speech = <<>> /\ plan = <<>>
    /\ result = "none" /\ error = "none" /\ files = {} /\ exits = NoExits
    /\ concat = NoConcat /\ runs = NoRuns
    /\ InvIdle
    /\ ParseIdle
    /\ WebIdle

\* lines 233-279: extract_audio
ExtractAudio ==
    /\ pc = "start"
    /\ \E exit \in {"ok", "ok_no_file", "nonzero", "not_found"} :
          /\ exits' = [exits EXCEPT !.extract = exit]
          /\ runs' = [runs EXCEPT !.extract = @ + 1]
          /\ IF exit = "ok"
             THEN /\ files' = files \cup {"raw_audio"}
                  /\ pc' = "extracted"
                  /\ error' = "none"
             ELSE /\ files' = files
                  /\ pc' = "failed"
                  /\ error' = CASE exit = "nonzero" -> "FFmpeg failed"
                                [] exit = "ok_no_file" -> "Audio extraction failed - output file not created"
                                [] OTHER -> "FFmpeg not found"
    /\ UNCHANGED <<audio_padding, det_silence, duration, speech, plan, result, concat,
                   invVars, parseVars, webVars>>

\* A mutant of the failure policy: a non-zero exit raises, as in extract_audio.
DetectRaisesOnFailure(exit, stderr) ==
    CASE exit = "ok" ->
            [pc |-> "detected", error |-> "none", silence |-> _parse_silence_output(stderr)]
      [] exit = "nonzero" ->
            [pc |-> "failed", error |-> "FFmpeg failed", silence |-> <<>>]
      [] OTHER ->
            [pc |-> "failed", error |-> "FFmpeg not found for silence detection", silence |-> <<>>]

\* A mutant of the failure policy: after a non-zero exit the detection is tried again.
DetectRetriesOnFailure(exit, stderr) ==
    CASE exit = "ok" ->
            [pc |-> "detected", error |-> "none", silence |-> _parse_silence_output(stderr)]
      [] exit = "nonzero" ->
            [pc |-> "extracted", error |-> "none", silence |-> <<>>]
      [] OTHER ->
            [pc |-> "failed", error |-> "FFmpeg not found for silence detection", silence |-> <<>>]

\* lines 65-83: what detect_silence does for each end of the detection process
DetectResult(exit, stderr) ==
    CASE exit = "ok" ->
            [pc |-> "detected", error |-> "none", silence |-> _parse_silence_output(stderr)]
      [] exit = "nonzero" ->
            [pc |-> "detected", error |-> "none", silence |-> <<>>]
      [] OTHER ->
            [pc |-> "failed", error |-> "FFmpeg not found for silence detection", silence |-> <<>>]

\* lines 44-83: detect_silence
DetectSilence ==
    /\ pc = "extracted"
    /\ \E exit \in {"ok", "nonzero", "not_found"}, segs \in DetectorSilence :
          /\ exit # "ok" => segs = <<>>
          /\ exits' = [exits EXCEPT !.detect = exit]
          /\ LET r == DetectResult(exit, LogOf(segs))
             IN  /\ pc' = r.pc
                 /\ error' = r.error
                 /\ det_silence' = r.silence
    /\ runs' = [runs EXCEPT !.detect = @ + 1]
    /\ UNCHANGED <<audio_padding, duration, speech, plan, result, files, concat,
                   invVars, parseVars, webVars>>

\* lines 122-129: remove_silence_segments up to the duration query
RemoveSilenceBegin ==
    /\ pc = "detected"
    /\ IF det_silence = <<>>
       THEN /\ result' = "raw_audio"
            /\ pc' = "done"
            /\ runs' = runs
       ELSE /\ result' = result
            /\ pc' = "probing"
            /\ runs' = [runs EXCEPT !.probe = @ + 1]
    /\ UNCHANGED <<audio_padding, det_silence, duration, speech, plan, error, files, exits,
                   concat, invVars, parseVars, webVars>>

\* lines 206-231: what _get_audio_duration returns for each end of ffprobe
DurationOf(exit, printed) == IF exit = "ok" THEN printed ELSE 0

\* lines 129-163: the duration query returns; the speech segments and the
\* filter are built and the stitching process is started.
BuildPlan ==
    /\ pc = "probing"
    /\ \E exit \in {"ok", "unparsable", "nonzero", "not_found"}, printed \in Durations :
          /\ exit # "ok" => printed = 0
          /\ exits' = [exits EXCEPT !.probe = exit]
          /\ duration' = DurationOf(exit, printed)
    /\ speech' = _get_speech_segments(det_silence, duration')
    /\ IF NoSpeech(speech')
       THEN /\ result' = "raw_audio"
            /\ pc' = "done"
            /\ UNCHANGED <<plan, concat, runs>>
       ELSE /\ plan' = PaddedSegments(speech', audio_padding, duration')
            /\ concat' = [inputs |-> ConcatInputs(Len(speech')), n |-> Len(speech')]
            /\ runs' = [runs EXCEPT !.stitch = @ + 1]
            /\ pc' = "stitching"
            /\ result' = result
    /\ UNCHANGED <<audio_padding, det_silence, error, files, invVars, parseVars, webVars>>

\* lines 165-181: the stitching process ends
StitchExit ==
    /\ pc = "stitching"
    /\ \E exit \in {"ok", "ok_no_file", "nonzero", "nonzero_partial", "not_found"} :
          /\ exits' = [exits EXCEPT !.stitch = exit]
          /\ files' = IF exit \in {"ok", "nonzero_partial"} THEN files \cup {"no_silence"} ELSE files
          /\ CASE exit \in {"ok", "ok_no_file"} ->
                    result' = "no_silence" /\ pc' = "done" /\ error' = error
               [] exit \in {"nonzero", "nonzero_partial"} ->
                    result' = "raw_audio" /\ pc' = "done" /\ error' = error
               [] OTHER ->
                    result' = result /\ pc' = "failed"
                        /\ error' = "FFmpeg not found for silence removal"
    /\ UNCHANGED <<audio_padding, det_silence, duration, speech, plan, concat, runs,
                   invVars, parseVars, webVars>>

Next == ExtractAudio \/ DetectSilence \/ RemoveSilenceBegin \/ BuildPlan \/ StitchExit

Spec == Init /\ [][Next]_vars

\* ------------------------------------------------ specification SpecWeb
\* src/src/app/web.py: two requests served concurrently by the two routes that
\* process a video.  The handlers are coroutines of one event loop; they
\* interleave at their awaits, which is where the actions below are cut.
Requests == {1, 2}

\* file.content_type: <<>> for None, <<s>> for the string s, a string being
\* the sequence of its parts ('video/mp4' is <<"video", "/", "mp4">>).
ContentTypes ==
    {<<>>, << <<>> >>, << <<"video", "/", "mp4">> >>, << <<"video">> >>,
     << <<"text", "/", "plain">> >>}

\* line 71: file.content_type.startswith('video/')
StartsWithVideo(s) == Len(s) >= 2 /\ s[1] = "video" /\ s[2] = "/"

\* A mutant of line 71: only the presence of a content type is checked.
AnyContentType(content_type) == content_type # <<>> /\ content_type[1] # <<>>

\* line 71: the upload passes the check of its content type
IsVideoUpload(content_type) ==
    /\ content_type # <<>>
    /\ content_type[1] # <<>>
    /\ StartsWithVideo(content_type[1])

HostDir == <<"host", 0>>
\* line 78: tempfile.TemporaryDirectory() makes a fresh directory per call
TempDir(r) == <<"tmp", r>>

FileNames ==
    {[stem |-> <<"a">>, ext |-> "mp4"], [stem |-> <<"a">>, ext |-> "mov"],
     [stem |-> <<"b">>, ext |-> "mp4"], [stem |-> <<"c">>, ext |-> "mp4"]}
\* the videos lying on the host before any request; c.mp4 does not exist
HostVideos == {[dir |-> HostDir, stem |-> n.stem, ext |-> n.ext] : n \in FileNames \ {[stem |-> <<"c">>, ext |-> "mp4"]}}

\* line 82: temp_path / f"input_{file.filename}"
UploadPath(r, name) == [dir |-> TempDir(r), stem |-> <<"input_">> \o name.stem, ext |-> name.ext]
\* line 125: Path(video_path)
HostPath(name) == [dir |-> HostDir, stem |-> name.stem, ext |-> name.ext]
\* video_processor.py line 243: video_path.parent / f"{video_path.stem}_audio.wav"
AudioPath(video_path) ==
    [dir |-> video_path.dir, stem |-> Append(video_path.stem, "_audio"), ext |-> "wav"]

Exists(fs, path) == \E f \in fs : f.path = path
WriterOf(fs, path) == (CHOOSE f \in fs : f.path = path).by
WriteFile(fs, path, r) == {f \in fs : f.path # path} \cup {[path |-> path, by |-> r]}

NewRequest(route, content_type, name) ==
    [route |-> route, content_type |-> content_type, filename |-> name,
     pc |-> "arrived", status |-> 0, detail |-> "", video |-> <<>>, audio |-> <<>>,
     started |-> {}]
NewRequests ==
    {NewRequest("upload", ct, n) : ct \in ContentTypes, n \in {[stem |-> <<"a">>, ext |-> "mp4"]}}
        \cup {NewRequest("process", <<>>, n) : n \in FileNames}

WebInit ==
    /\ web_req \in [Requests -> NewRequests]
    /\ web_fs = {[path |-> v, by |-> 0] : v \in HostVideos}
    /\ web_dirs = {HostDir}
    /\ web_shared = {}
    /\ InvIdle
    /\ ParseIdle
    /\ PipeIdle

\* the request ends with a response
Respond(q, status, detail) == [q EXCEPT !.pc = "responded", !.status = status, !.detail = detail]
\* lines 107-111, 153-157: any exception of the processing becomes a 500
ProcessingError(q) == Respond(q, 500, "Error processing video")
\* line 78: leaving the with block removes the temporary directory and all in it;
\* process_existing_video has no such block
DirsAfter(r, dirs) == IF web_req[r].route = "upload" THEN dirs \ {TempDir(r)} ELSE dirs
FilesAfter(r, fs) ==
    IF web_req[r].route = "upload" THEN {f \in fs : f.path.dir # TempDir(r)} ELSE fs

\* lines 70-75: the content type of the upload is checked
UploadValidate(r) ==
    /\ web_req[r].pc = "arrived" /\ web_req[r].route = "upload"
    /\ web_req' = [web_req EXCEPT ![r] =
          IF IsVideoUpload(@.content_type) THEN [@ EXCEPT !.pc = "validated"]
          ELSE Respond(@, 400, "File must be a video format")]
    /\ UNCHANGED <<web_fs, web_dirs, web_shared, invVars, parseVars, pipeVars>>

\* lines 78-85: the temporary directory is made and the upload saved in it
UploadSave(r) ==
    /\ web_req[r].pc = "validated"
    /\ LET video_path == UploadPath(r, web_req[r].filename)
       IN  /\ web_dirs' = web_dirs \cup {TempDir(r)}
           /\ web_fs' = WriteFile(web_fs, video_path, r)
           /\ web_req' = [web_req EXCEPT ![r] =
                 [@ EXCEPT !.pc = "ready", !.video = <<video_path>>,
                           !.started = @ \cup {"workspace", "save"}]]
    /\ UNCHANGED <<web_shared, invVars, parseVars, pipeVars>>

\* lines 125-131: the video named by the request is looked up
ProcessLookup(r) ==
    /\ web_req[r].pc = "arrived" /\ web_req[r].route = "process"
    /\ LET video_file == HostPath(web_req[r].filename)
       IN  web_req' = [web_req EXCEPT ![r] =
              IF Exists(web_fs, video_file)
              THEN [@ EXCEPT !.pc = "ready", !.video = <<video_file>>]
              ELSE Respond(@, 404, "Video file not found")]
    /\ UNCHANGED <<web_fs, web_dirs, web_shared, invVars, parseVars, pipeVars>>

\* lines 89, 135 and video_processor.py lines 233-279: extract_audio writes the
\* audio beside the video it was given
WebExtractAudio(r) ==
    /\ web_req[r].pc = "ready"
    /\ \E exit \in {"ok", "ok_no_file", "nonzero", "not_found"} :
          LET audio_path == AudioPath(web_req[r].video[1])
              written == IF exit = "ok" THEN WriteFile(web_fs, audio_path, r) ELSE web_fs
              foreign == exit = "ok" /\ Exists(web_fs, audio_path)
                            /\ WriterOf(web_fs, audio_path) # r
              returned == exit \in {"ok", "ok_no_file"} /\ Exists(written, audio_path)
          IN  /\ web_shared' =
                    IF foreign
                    THEN web_shared \cup {[op |-> "write", path |-> audio_path, by |-> r,
                                           of |-> WriterOf(web_fs, audio_path)]}
                    ELSE web_shared
              /\ IF returned
                 THEN /\ web_req' = [web_req EXCEPT ![r] =
                            [@ EXCEPT !.pc = "extracted", !.audio = <<audio_path>>,
                                      !.started = @ \cup {"extract"}]]
                      /\ web_fs' = written
                      /\ web_dirs' = web_dirs
                 ELSE /\ web_req' = [web_req EXCEPT ![r] =
                            ProcessingError([@ EXCEPT !.started = @ \cup {"extract"}])]
                      /\ web_fs' = FilesAfter(r, written)
                      /\ web_dirs' = DirsAfter(r, web_dirs)
    /\ UNCHANGED <<invVars, parseVars, pipeVars>>

\* lines 92, 138 and video_processor.py lines 280-300: get_video_info
WebVideoInfo(r) ==
    /\ web_req[r].pc = "extracted"
    /\ \E exit \in {"ok", "nonzero", "not_found"} :
          IF exit = "ok"
          THEN /\ web_req' = [web_req EXCEPT ![r] = [@ EXCEPT !.pc = "probed"]]
               /\ UNCHANGED <<web_fs, web_dirs>>
          ELSE /\ web_req' = [web_req EXCEPT ![r] = ProcessingError(@)]
               /\ web_fs' = FilesAfter(r, web_fs)
               /\ web_dirs' = DirsAfter(r, web_dirs)
    /\ UNCHANGED <<web_shared, invVars, parseVars, pipeVars>>

\* lines 95, 141 and transcription.py lines 32-46: the audio file is opened and
\* sent to the transcription
WebTranscribe(r) ==
    /\ web_req[r].pc = "probed"
    /\ \E outcome \in {"ok", "failed"} :
          LET audio_path == web_req[r].audio[1]
              there == Exists(web_fs, audio_path)
              foreign == there /\ WriterOf(web_fs, audio_path) # r
          IN  /\ web_shared' =
                    IF foreign
                    THEN web_shared \cup {[op |-> "read", path |-> audio_path, by |-> r,
                                           of |-> WriterOf(web_fs, audio_path)]}
                    ELSE web_shared
              /\ IF there /\ outcome = "ok"
                 THEN /\ web_req' = [web_req EXCEPT ![r] =
                            [@ EXCEPT !.pc = "transcribed", !.started = @ \cup {"transcribe"}]]
                      /\ UNCHANGED <<web_fs, web_dirs>>
                 ELSE /\ web_req' = [web_req EXCEPT ![r] =
                            ProcessingError([@ EXCEPT !.started = @ \cup {"transcribe"}])]
                      /\ web_fs' = FilesAfter(r, web_fs)
                      /\ web_dirs' = DirsAfter(r, web_dirs)
    /\ UNCHANGED <<invVars, parseVars, pipeVars>>

\* lines 98-105, 144-151: the summary is made and the result returned
WebSummarize(r) ==
    /\ web_req[r].pc = "transcribed"
    /\ \E outcome \in {"ok", "failed"} :
          web_req' = [web_req EXCEPT ![r] =
              IF outcome = "ok"
              THEN Respond([@ EXCEPT !.started = @ \cup {"summarize"}], 200, "")
              ELSE ProcessingError([@ EXCEPT !.started = @ \cup {"summarize"}])]
    /\ web_fs' = FilesAfter(r, web_fs)
    /\ web_dirs' = DirsAfter(r, web_dirs)
    /\ UNCHANGED <<web_shared, invVars, parseVars, pipeVars>>

WebNext ==
    \E r \in Requests :
        \/ UploadValidate(r)
        \/ UploadSave(r)
        \/ ProcessLookup(r)
        \/ WebExtractAudio(r)
        \/ WebVideoInfo(r)
        \/ WebTranscribe(r)
        \/ WebSummarize(r)

SpecWeb == WebInit /\ [][WebNext]_vars

\* ------------------------------------------------ interval geometry
\* Points are counted in half ticks, so that the open interval between two
\* neighbouring ticks holds a point: ClosedPoints is [start, end] and
\* InteriorPoints is (start, end).
ClosedPoints(iv) == (2 * iv[1])..(2 * iv[2])
InteriorPoints(iv) == (2 * iv[1] + 1)..(2 * iv[2] - 1)
CoveredBy(segs) == UNION {ClosedPoints(segs[i]) : i \in 1..Len(segs)}
IsTimeInterval(iv) == 0 <= iv[1] /\ iv[1] <= iv[2]
SortedByStart(segs) == \A i, j \in 1..Len(segs) : i < j => segs[i][1] <= segs[j][1]

\* ------------------------------------------------------------ claims
InvDone == inv_pc = "done"

\* The silence lists C1 speaks of: sorted ascending by start, every entry a
\* TimeInterval (0 <= start <= end), and the duration at least the largest end.
SortedWithin(segs, total_duration) ==
    /\ SortedByStart(segs)
    /\ \A i \in 1..Len(segs) : IsTimeInterval(segs[i]) /\ segs[i][2] <= total_duration

\* C1: for a silence list sorted by start whose intervals end by D, the speech
\* intervals returned by _get_speech_segments and the silence intervals
\* together cover exactly [0, D], and no two speech intervals overlap.
C1_SpeechAndSilenceTileDuration ==
    (InvDone /\ SortedWithin(inv_silence, inv_duration)) =>
        /\ CoveredBy(inv_speech) \cup CoveredBy(inv_silence) = 0..(2 * inv_duration)
        /\ \A i, j \in 1..Len(inv_speech) :
              i # j => InteriorPoints(inv_speech[i]) \cap InteriorPoints(inv_speech[j]) = {}

\* C1's case: two silence intervals that overlap, with speech before and after.
C1_Witness ==
    /\ InvDone /\ SortedWithin(inv_silence, inv_duration)
    /\ Len(inv_silence) = 2 /\ Len(inv_speech) = 2
    /\ InteriorPoints(inv_silence[1]) \cap InteriorPoints(inv_silence[2]) # {}

\* C2: no speech interval returned by _get_speech_segments reaches into the
\* interior of a silence interval, whatever the overlap or nesting of the
\* silence intervals; silence [(1,5),(3,8)] s of a 10 s clip gives [(0,1),(8,10)] s.
C2_SpeechAvoidsSilence ==
    InvDone =>
        /\ \A i \in 1..Len(inv_speech), j \in 1..Len(inv_silence) :
              ClosedPoints(inv_speech[i]) \cap InteriorPoints(inv_silence[j]) = {}
        /\ (inv_silence = OverlapExample.silence /\ inv_duration = OverlapExample.duration)
              => inv_speech = << <<0, 10>>, <<80, 100>> >>

\* C2's case: a silence interval nested in an earlier one, and speech after both.
C2_Witness ==
    /\ InvDone /\ Len(inv_silence) = 2 /\ inv_calls = 1
    /\ inv_silence[1][1] < inv_silence[2][1] /\ inv_silence[2][2] < inv_silence[1][2]
    /\ inv_speech # <<>>
    /\ inv_speech[Len(inv_speech)] = <<inv_silence[1][2], inv_duration>>

StartBeforeEnd(segs) == \A i \in 1..Len(segs) : segs[i][1] < segs[i][2]

\* C3 as stated: every returned speech interval has start < end, the empty
\* silence list and the duration 0 included.
C3_NeverZeroLength == InvDone => StartBeforeEnd(inv_speech)

\* C3 amended: every returned speech interval has start < end, except that the
\* empty silence list with duration 0 returns the one interval (0, 0).
C3_ZeroLengthOnlyForEmptyClip ==
    InvDone =>
        IF inv_silence = <<>> /\ inv_duration = 0
        THEN inv_speech = << <<0, 0>> >>
        ELSE StartBeforeEnd(inv_speech)

\* C3's case: a silence that starts where the cursor stands and one that ends
\* at the duration, so both the gap and the final segment would have length 0.
C3_Witness ==
    /\ InvDone /\ inv_silence # <<>>
    /\ \E i \in 1..Len(inv_silence) : inv_silence[i][1] = 0
    /\ \E i \in 1..Len(inv_silence) : inv_silence[i][2] = inv_duration
    /\ Len(inv_speech) = 1

\* C4: the empty silence list gives exactly one speech interval, (0, D).
C4_EmptySilenceGivesWholeClip ==
    (InvDone /\ inv_silence = <<>>) => inv_speech = << <<0, inv_duration>> >>

\* C4's case: the call was made on the empty list (here with duration 0).
C4_Witness == InvDone /\ inv_silence = <<>> /\ inv_duration = 0

\* C5 as stated: a silence list whose union covers the whole of [0, D] gives no
\* speech, for every duration D (here already for D > 0 and silence intervals
\* of positive length that are TimeIntervals).
C5_FullSilenceGivesNoSpeech ==
    (/\ InvDone /\ inv_duration > 0
     /\ \A i \in 1..Len(inv_silence) :
           IsTimeInterval(inv_silence[i]) /\ inv_silence[i][1] < inv_silence[i][2]
     /\ (0..(2 * inv_duration)) \subseteq CoveredBy(inv_silence)) => inv_speech = <<>>

\* C6: calling _get_speech_segments again with the same silence intervals in
\* another order and the same duration returns the same speech list.
C6_OrderOfSilenceIrrelevant ==
    [][(InvDone /\ inv_pc' = "done" /\ inv_duration' = inv_duration) => inv_speech' = inv_speech]_vars

\* C6's case: a second call was made on a list that is not in ascending order
\* and whose inversion emits a gap.
C6_Witness ==
    /\ InvDone /\ inv_calls = 2 /\ Len(inv_silence) = 2
    /\ TupleLess(inv_silence[2], inv_silence[1])
    /\ Len(inv_speech) = 2

\* ------------------------------------------------- claims on the parser
\* A step of the scan that consumes line log[line_no].
ScanStep == parse_pc = "scan" /\ line_no' = line_no + 1
ParseReturns == parse_pc = "scan" /\ parse_pc' = "done"
\* An end marker line is one the end branch handles: 'silence_end:' and no
\* 'silence_start:' in it.  A line fails when float() of its token raises.
IsEndLine(line) == line.kind = "end"
LineFails(line) == (HasStartMarker(line) \/ IsEndLine(line)) /\ line.ts = <<>>
ParsedEndLines(lines) == {i \in 1..Len(lines) : IsEndLine(lines[i]) /\ lines[i].ts # <<>>}

\* C7: the scan buffers the latest start; an end marker met while a start is
\* buffered appends exactly (buffered start, end) and clears the buffer; an end
\* marker met with no buffered start appends nothing; the return value is the
\* list as emitted, so a start still buffered at the end of the log is dropped:
\* start 1.0, end 2.5, start 9.0 gives [(1.0, 2.5)].
C7_ScanPairsStartWithEnd ==
    [][/\ (ScanStep /\ log[line_no].kind = "start" /\ log[line_no].ts # <<>>) =>
              (parse_start' = log[line_no].ts /\ parse_segments' = parse_segments)
       /\ (ScanStep /\ IsEndLine(log[line_no]) /\ log[line_no].ts # <<>> /\ parse_start # None) =>
              /\ parse_segments' = Append(parse_segments, <<parse_start[1], log[line_no].ts[1]>>)
              /\ parse_start' = None
       /\ (ScanStep /\ IsEndLine(log[line_no]) /\ parse_start = None) =>
              (parse_segments' = parse_segments /\ parse_start' = None)
       /\ ParseReturns =>
              /\ parse_segments' = parse_segments
              /\ Len(parse_segments') <= Cardinality(ParsedEndLines(log))
              /\ log = DanglingExample => parse_segments' = << <<10, 25>> >>
      ]_vars

\* C7's case: an end marker with nothing buffered, then a pair, then a start
\* that is still buffered when the scan returns.
C7_Witness ==
    /\ parse_pc = "done" /\ Len(log) = 4
    /\ IsEndLine(log[1]) /\ log[1].ts # <<>>
    /\ log[2].kind = "start" /\ log[2].ts # <<>>
    /\ IsEndLine(log[3]) /\ log[3].ts # <<>>
    /\ log[4].kind = "start" /\ parse_start = log[4].ts /\ parse_start # None
    /\ parse_segments = << <<log[2].ts[1], log[3].ts[1]>> >>

KeepsLine(line) == ~LineFails(line)
WithoutFailingLines(lines) == SelectSeq(lines, KeepsLine)

\* C8: a marker line whose timestamp fails to parse changes neither the
\* buffered start nor the emitted intervals, and after every line the scan
\* stands where the scan of the log without its failing lines stands.
C8_FailingLineIsSkipped ==
    [][ScanStep =>
          /\ LineFails(log[line_no]) =>
                (parse_start' = parse_start /\ parse_segments' = parse_segments)
          /\ [silence_start |-> parse_start', silence_segments |-> parse_segments'] =
                ParseLines([silence_start |-> None, silence_segments |-> <<>>],
                           WithoutFailingLines(SubSeq(log, 1, line_no)))
      ]_vars

\* C8's case: a failing start line and a failing end line between a start and
\* the end that closes it.
C8_Witness ==
    /\ parse_pc = "done" /\ Len(log) = 4
    /\ log[1].kind = "start" /\ log[1].ts # <<>>
    /\ log[2].kind = "start" /\ LineFails(log[2])
    /\ IsEndLine(log[3]) /\ LineFails(log[3])
    /\ IsEndLine(log[4]) /\ log[4].ts # <<>>
    /\ parse_segments = << <<log[1].ts[1], log[4].ts[1]>> >>

\* A log as the detector writes it: start and end markers in turn, each with a
\* timestamp that parses, the timestamps increasing.
DetectorLog(lines) ==
    /\ \A i \in 1..Len(lines) :
          /\ lines[i].ts # <<>>
          /\ lines[i].kind = (IF i % 2 = 1 THEN "start" ELSE "end")
    /\ \A i \in 1..(Len(lines) - 1) : lines[i].ts[1] < lines[i + 1].ts[1]

\* C9 as stated: every interval the parser emits is a TimeInterval,
\* 0 <= start <= end (here already for the logs a detector writes).
C9_ParsedIntervalsAreTimeIntervals ==
    DetectorLog(log) => \A i \in 1..Len(parse_segments) : IsTimeInterval(parse_segments[i])

\* ----------------------------------------------- claims on the pipeline
Within(x, total) == 0 <= x /\ x <= total

\* C10 as stated: each atrim handed to the stitcher is
\* (max(0, start - p), min(D, end + p)) of its speech interval and lies within
\* [0, D]; (2,4) s with p = 0.2 s, D = 10 s gives (1.8, 4.2) s and (0,1) s with
\* p = 0.5 s gives (0, 1.5) s.  (The containment is asked here only of the
\* runs whose duration query exits non-zero.)
C10_PaddedSegmentsWithinDuration ==
    pc = "stitching" =>
        /\ Len(plan) = Len(speech)
        /\ \A i \in 1..Len(plan) :
              /\ plan[i] = <<Max(0, speech[i][1] - audio_padding),
                             Min(duration, speech[i][2] + audio_padding)>>
              /\ exits.probe = "nonzero" =>
                    (Within(plan[i][1], duration) /\ Within(plan[i][2], duration))
        /\ (det_silence = PadExample.silence /\ audio_padding = PadExample.padding
               /\ duration = PadExample.duration) => plan = << <<18, 42>> >>
        /\ (det_silence = ClampExample.silence /\ audio_padding = ClampExample.padding
               /\ duration = ClampExample.duration) => plan = << <<0, 15>> >>

\* C11: the filter handed to the stitcher holds one trim per speech segment,
\* the i-th trim being the i-th padded segment, and concatenates the trims in
\* that order with n the number of segments; overlapping padded segments are
\* neither merged nor dropped nor reordered.
C11_OneTrimPerSegmentInOrder ==
    pc = "stitching" =>
        /\ speech # <<>>
        /\ Len(plan) = Len(speech)
        /\ concat.n = Len(speech)
        /\ Len(concat.inputs) = Len(speech)
        /\ \A i \in 1..Len(speech) :
              /\ concat.inputs[i] = i - 1
              /\ plan[concat.inputs[i] + 1] =
                    <<Max(0, speech[i][1] - audio_padding),
                      Min(duration, speech[i][2] + audio_padding)>>

\* C11's case: two speech segments whose padded segments overlap, the duration
\* being that of the clip.
C11_Witness ==
    /\ pc = "stitching" /\ Len(speech) = 2 /\ audio_padding > 0
    /\ \A i \in 1..Len(det_silence) : det_silence[i][2] <= duration
    /\ plan[2][1] < plan[1][2]

\* ---------------------------------------------- claims on the pipeline
RunDone == pc = "done"
StitchStarted == runs.stitch > 0 \/ exits.stitch # "none" \/ concat # NoConcat
OutputBesideAudio == "no_silence" \in files
FailedStitchExits == {"nonzero", "nonzero_partial", "ok_no_file"}
NotFoundErrors ==
    {"FFmpeg not found", "FFmpeg not found for silence detection",
     "FFmpeg not found for silence removal"}

\* C12: when no silence was detected, or the inversion yields no speech,
\* remove_silence_segments returns the original audio itself, the stitching
\* process is never started and no output file is created.
C12_EmptySegmentsReturnOriginal ==
    (RunDone /\ (det_silence = <<>> \/ speech = <<>>)) =>
        /\ result = "raw_audio"
        /\ ~StitchStarted
        /\ ~OutputBesideAudio
        /\ files = {"raw_audio"}
        /\ error = "none"

\* C12's case: silence was detected, the duration query answered with the
\* clip's duration, and the inversion left no speech.
C12_Witness ==
    /\ RunDone /\ det_silence # <<>> /\ speech = <<>>
    /\ exits.probe = "ok" /\ duration > 0

\* C13: a stitching process that fails, by a non-zero exit or by exiting with
\* success without writing the output file, makes remove_silence_segments return
\* the original audio without an error; the handle returned always names a
\* file that exists.
C13_FailedStitchReturnsOriginal ==
    /\ exits.stitch \in FailedStitchExits =>
          RunDone /\ result = "raw_audio" /\ error = "none"
    /\ RunDone => result \in files

\* C14: a silence-detection process that exits with a non-zero status gives the
\* empty list without raising, and the run then returns the extracted audio
\* whole, with no duration query and no stitching.
C14_FailedDetectionMeansNoSilence ==
    exits.detect = "nonzero" =>
        /\ det_silence = <<>>
        /\ error = "none"
        /\ pc \in {"detected", "done"}
        /\ RunDone => /\ result = "raw_audio"
                      /\ files = {"raw_audio"}
                      /\ runs.probe = 0
                      /\ ~StitchStarted

\* C14's case: the detection has exited with a non-zero status and the run has
\* returned.
C14_Witness == exits.detect = "nonzero" /\ RunDone /\ runs.detect = 1

\* C15: a missing external tool, ffmpeg or ffprobe, at any step ends the run
\* with a tool-not-found error; it is never turned into a fallback value.
C15_MissingToolIsFatal ==
    \A step \in DOMAIN exits :
        exits[step] = "not_found" => pc = "failed" /\ error \in NotFoundErrors

\* C18: after a stitching process that failed, no output file, whole or
\* partial, is left beside the source audio.
C18_NoOutputLeftByFailedStitch ==
    exits.stitch \in (FailedStitchExits \cup {"not_found"}) => ~OutputBesideAudio

\* C19: in one run the silence-detection process and the stitching process are
\* each started at most once; however an attempt ends, the stage is not
\* entered again and the run goes on to the fallback or ends with an error.
C19_OneAttemptPerStage ==
    /\ runs.detect <= 1 /\ runs.stitch <= 1
    /\ exits.detect # "none" =>
          /\ runs.detect = 1
          /\ pc \notin {"start", "extracted"}
          /\ exits.detect = "nonzero" => det_silence = <<>> /\ error = "none"
          /\ exits.detect = "not_found" => pc = "failed"
    /\ exits.stitch # "none" =>
          /\ runs.stitch = 1
          /\ pc \in {"done", "failed"}
          /\ exits.stitch \in {"nonzero", "nonzero_partial"} => result = "raw_audio"
          /\ exits.stitch = "not_found" => pc = "failed" /\ error \in NotFoundErrors

\* C19's case: both processes were started, the stitching process failed and
\* the run ended with the fallback.
C19_Witness ==
    /\ RunDone /\ exits.detect = "ok" /\ exits.stitch = "nonzero"
    /\ runs.detect = 1 /\ runs.stitch = 1 /\ result = "raw_audio"

RECURSIVE TotalLength(_)
TotalLength(segs) ==
    IF segs = <<>> THEN 0 ELSE (Head(segs)[2] - Head(segs)[1]) + TotalLength(Tail(segs))

\* C20: for a 10 s audio with silence (4,6) and padding 0.5 the speech is
\* [(0,4),(6,10)], the padded and clamped segments are [(0,4.5),(5.5,10)] and
\* the segments of the stitch plan add up to 9 s.
C20_EndToEndExample ==
    ( /\ pc \in {"stitching", "done", "failed"}
      /\ exits.probe = "ok"
      /\ det_silence = << <<40, 60>> >>
      /\ audio_padding = 5
      /\ duration = 100 ) =>
        /\ speech = << <<0, 40>>, <<60, 100>> >>
        /\ plan = << <<0, 45>>, <<55, 100>> >>
        /\ TotalLength(plan) = 90
        /\ concat.n = 2

\* C20's case: the example has been stitched.
C20_Witness ==
    /\ RunDone /\ exits.probe = "ok" /\ exits.stitch = "ok"
    /\ det_silence = EndToEndExample.silence
    /\ audio_padding = EndToEndExample.padding
    /\ duration = EndToEndExample.duration
    /\ result = "no_silence"

\* ------------------------------------------- claims on the web routes
Responded(r) == web_req[r].pc = "responded"
ArtifactsOf(r) == {f \in web_fs : f.by = r}

\* C16: every request, on either route, keeps its intermediate artifacts in
\* a temporary directory of its own, and once the request has ended neither
\* that directory nor any artifact the request created exists.
C16_WorkspaceOwnedAndCleaned ==
    \A r \in Requests :
        /\ \A f \in ArtifactsOf(r) : f.path.dir = TempDir(r)
        /\ Responded(r) => TempDir(r) \notin web_dirs /\ ArtifactsOf(r) = {}

\* C17: under every interleaving of two requests, no artifact written by one
\* request is written or read by the other.
C17_NoSharedArtifacts == web_shared = {}

\* the content type is missing (None or empty) or does not start with 'video/'
NotAVideoType(ct) ==
    \/ ct = <<>>
    \/ ct[1] = <<>>
    \/ Len(ct[1]) < 2
    \/ ct[1][1] # "video"
    \/ ct[1][2] # "/"
BadUpload(r) == web_req[r].route = "upload" /\ NotAVideoType(web_req[r].content_type)

\* C21: an upload whose content type is missing or does not start with
\* 'video/' is answered with status 400 and detail 'File must be a video
\* format' before anything is processed: no temporary directory is made, no
\* file is saved, and no extraction, transcription or summary is started.
C21_BadUploadRejectedBeforeProcessing ==
    \A r \in Requests :
        BadUpload(r) =>
            /\ web_req[r].pc \in {"arrived", "responded"}
            /\ Responded(r) =>
                  /\ web_req[r].status = 400
                  /\ web_req[r].detail = "File must be a video format"
            /\ web_req[r].started = {}
            /\ web_req[r].video = <<>> /\ web_req[r].audio = <<>>
            /\ TempDir(r) \notin web_dirs
            /\ ArtifactsOf(r) = {}
            /\ \A e \in web_shared : e.by # r

\* C21's case: an upload with a content type that names no 'video/' type has
\* been answered, while the other request was processed.
C21_Witness ==
    \E r, o \in Requests :
        /\ r # o
        /\ BadUpload(r) /\ web_req[r].content_type # <<>> /\ Responded(r)
        /\ web_req[r].status = 400
        /\ "extract" \in web_req[o].started

\* C22: on every path that reaches the stitching process, the failed duration
\* query and the duration below the silence timestamps included, every padded
\* segment of the stitch plan has 0 <= padded_start <= padded_end <= duration.
C22_StitchPlanWellFormed ==
    runs.stitch > 0 =>
        \A i \in 1..Len(plan) :
            /\ 0 <= plan[i][1]
            /\ plan[i][1] <= plan[i][2]
            /\ plan[i][2] <= duration

====
